---- MODULE Spec2Model ----
(***************************************************************************)
(* State-machine model of src/main.py: the /chat handler (session store,   *)
(* transcript, upstream call, fallbacks) and the /live-quote handler that  *)
(* writes the same session store.                                          *)
(*                                                                         *)
(* Text is a sequence of segments.  A prompt, an upstream text and a       *)
(* keyword are sequences of one-character segments; the fixed messages of  *)
(* the program are sequences of their literal parts and the configuration  *)
(* values formatted into them (an f-string is the concatenation of its     *)
(* parts).  Non-ASCII characters of the literals are written in ASCII.     *)
(* Optional[T] is a sequence of length 0 (None) or 1 (the value).          *)
(***************************************************************************)
EXTENDS Integers, Sequences, FiniteSets, TLC

VARIABLES
    active_sessions,  \* main.py:43  dict: session id -> session dict (a record)
    session_obj,      \* per key of active_sessions: which dict object is bound to it,
                      \* numbered in the order the key was assigned (1 = the first)
    uuid_count,       \* number of identifiers generate_session_id has returned
    clock,            \* datetime.now(): logical time, one tick per arriving request
    known_ids,        \* session identifiers the clients know (chosen or returned to them)
    calls,            \* per session id: number of chat handler invocations on it
    req,              \* per request slot: the position and locals of a running chat()
    recent_leads,     \* main.py:44  list of lead dicts
    leads_file,       \* the rows appended to LEADS_FILE (main.py:33)
    posted,           \* per URL of a lead service: the payloads it has received
    added,            \* the lead ids in the order of recent_leads.append
    lead_req          \* per slot: the position and locals of a running lead handler

\* what the lead endpoints write
lead_vars == <<recent_leads, leads_file, posted, added, lead_req>>

\* what the chat and live-quote endpoints write, the clock aside
chat_vars == <<active_sessions, session_obj, uuid_count, known_ids, calls, req>>

vars == <<active_sessions, session_obj, uuid_count, clock, known_ids, calls, req,
          recent_leads, leads_file, posted, added, lead_req>>

----------------------------------------------------------------------------
(* Bounds of the model *)

\* number of requests (chat or live-quote) that arrive in one behaviour of Spec
MaxRequests == 2
\* number of chat requests that arrive in one behaviour of SpecSeq
MaxSeqRequests == 3
\* number of chat requests that arrive in one behaviour of SpecReply
MaxReplyRequests == 2

\* requests that arrive in a run of SpecRace
MaxRaceRequests == 3

\* lead submissions that arrive in a run of SpecLeadFull
MaxFullRequests == 2

----------------------------------------------------------------------------
(* Configuration, main.py:25-31 *)

BUSINESS_NAME == "Astro Outdoor Designs"
BUSINESS_PHONE == "832-280-5783"
BUSINESS_EMAIL == "admin@kingwoodfencing.com"
FACEBOOK_PAGE == "www.facebook.com/astrooutdoordesigns"
CLAUDE_MODEL == "claude-haiku-4-5-20251001"
VISION_MODEL == "claude-sonnet-4-5"

\* main.py:67
SHEETS_API_URL == "https://sheets.googleapis.com/v4/spreadsheets/.../values/Sheet1:append"
\* main.py:663
BREVO_API_URL == "https://api.brevo.com/v3/smtp/email"

\* the chat request posted to the e-mail service
posted_to_brevo == BREVO_API_URL

\* main.py:38
ANTHROPIC_API_URL == "https://api.anthropic.com/v1/messages"

\* requests.post(url, json=payload) as the lead services see it: the service
\* at url receives the payload; a post to any other URL reaches none of them
requests_post(log, url, payload) ==
    IF url \in DOMAIN log THEN [log EXCEPT ![url] = Append(@, payload)] ELSE log

\* main.py:800, 892: the length that recent_leads is cut back to
MaxRecentLeads == 50

\* Lead.name, Lead.project_details: Field(..., min_length=.., max_length=..)
LeadNameMinLen == 2
LeadNameMaxLen == 100
DetailsMinLen == 10
DetailsMaxLen == 2000

\* Chat.prompt: Field(..., min_length=1, max_length=4000)
PromptMinLen == 1
PromptMaxLen == 4000
\* LiveQuoteRequest.user_name / phone: Field(..., min_length=.., max_length=..)
NameMinLen == 2
NameMaxLen == 50
PhoneMinLen == 10
PhoneMaxLen == 20

----------------------------------------------------------------------------
(* str methods used by the handler *)

Min(S) == CHOOSE x \in S : \A y \in S : x <= y
Max(S) == CHOOSE x \in S : \A y \in S : x >= y

IsSpace(c) == c \in {" ", "\t", "\n", "\r"}

\* str.strip(): drop leading and trailing whitespace
strip(s) ==
    LET keep == {i \in 1..Len(s) : ~IsSpace(s[i])}
    IN  IF keep = {} THEN <<>> ELSE SubSeq(s, Min(keep), Max(keep))

UpperCase == <<"A","B","C","D","E","F","G","H","I","J","K","L","M",
               "N","O","P","Q","R","S","T","U","V","W","X","Y","Z">>
LowerCase == <<"a","b","c","d","e","f","g","h","i","j","k","l","m",
               "n","o","p","q","r","s","t","u","v","w","x","y","z">>

lower_char(c) ==
    IF \E i \in 1..Len(UpperCase) : UpperCase[i] = c
    THEN LowerCase[CHOOSE i \in 1..Len(UpperCase) : UpperCase[i] = c]
    ELSE c

\* a comparison that forgets to fold the case
not_lowered(s) == s

\* str.lower()
lower(s) == [i \in 1..Len(s) |-> lower_char(s[i])]

\* `word in s` for strings: word occurs in s as a contiguous run
contains(s, word) ==
    \E i \in 0..(Len(s) - Len(word)) : SubSeq(s, i + 1, i + Len(word)) = word

\* Optional[T]
None == <<>>
Some(x) == <<x>>

----------------------------------------------------------------------------
(* Fixed texts of the chat handler *)

\* main.py:726
fallback_response ==
    <<"Quick question - what are you trying to build or fix? (Approximate feet + height helps a lot.)">>

\* main.py:737
empty_result_response ==
    <<"Got it. What's the approximate length (feet) and desired height (6ft/7ft/8ft)? Any gates needed?">>

\* main.py:740
quote_suffix ==
    <<"\n\n", "**Ready to move forward?** Call or text us at **", BUSINESS_PHONE,
      "** or email **", BUSINESS_EMAIL, "** for fastest response!">>

\* the social suffix joined to the text by a space instead of a blank line
social_suffix_joined ==
    <<" ", "**Find us on Facebook:** ", FACEBOOK_PAGE, " or search for us on Google!">>

\* main.py:743
social_suffix ==
    <<"\n\n", "**Find us on Facebook:** ", FACEBOOK_PAGE, " or search for us on Google!">>

\* main.py:759
timeout_response ==
    <<"That's taking longer than normal. Try again - or call/text us directly at ",
      BUSINESS_PHONE, " for immediate help!">>

\* main.py:764
error_response ==
    <<"Something hiccupped on our side. Call or text us at ", BUSINESS_PHONE,
      " or email ", BUSINESS_EMAIL, " for immediate assistance.">>

\* the messages of the user turns of a transcript, one after the other
RECURSIVE user_text(_)
user_text(turns) ==
    IF turns = <<>> THEN <<>>
    ELSE (IF Head(turns).type = "user" THEN Head(turns).message \o <<" ">> ELSE <<>>)
           \o user_text(Tail(turns))

\* the keyword tests reading everything the user said in the session
conversation_text(prompt, history) == user_text(history)

\* main.py:739, 742: the text the keyword tests read is `prompt`, the
\* stripped text of the current request
keyword_text(prompt, history) == prompt

\* main.py:739
quote_words ==
    { <<"q","u","o","t","e">>, <<"p","r","i","c","e">>, <<"c","o","s","t">>,
      <<"e","s","t","i","m","a","t","e">>, <<"s","c","h","e","d","u","l","e">>,
      <<"w","h","e","n">>, <<"h","o","w"," ","m","u","c","h">> }

\* main.py:742
social_words ==
    { <<"f","a","c","e","b","o","o","k">>, <<"s","o","c","i","a","l">>,
      <<"r","e","v","i","e","w","s">>, <<"f","i","n","d"," ","y","o","u">> }

\* the call-to-action appended whatever the prompt says
suffix_always(ai_response, prompt) ==
    (IF ai_response = <<>> THEN empty_result_response ELSE ai_response) \o quote_suffix

\* main.py:736-743: the text of the assistant turn on the success path
success_text(ai_response, prompt) ==
    LET t0 == IF ai_response = <<>> THEN empty_result_response ELSE ai_response
        t1 == IF \E word \in quote_words : contains(lower(prompt), word)
              THEN t0 \o quote_suffix ELSE t0
    IN  IF \E word \in social_words : contains(lower(prompt), word)
        THEN t1 \o social_suffix ELSE t1

----------------------------------------------------------------------------
(* call_claude: the request composed from the history and the current turn *)

\* An image payload is a sequence of segments: a data URI is
\* <<"data:", mime, ";base64", ",", payload>>, a bare payload is <<payload>>.
starts_with_data(img) == Len(img) > 0 /\ img[1] = "data:"

comma_at(img) == {i \in 1..Len(img) : img[i] = ","}

\* main.py:602: `header, img_b64 = img_b64.split(",", 1)` raises ValueError
\* when the string holds no comma (one part cannot be unpacked into two)
image_raises(img) == starts_with_data(img) /\ comma_at(img) = {}

\* main.py:600-605
image_media_type(img) ==
    IF ~starts_with_data(img) THEN "image/jpeg"
    ELSE LET header == SubSeq(img, 1, Min(comma_at(img)) - 1)
             has(sub) == \E i \in 1..Len(header) : header[i] = sub
         IN  IF has("image/png") THEN "image/png"
             ELSE IF has("image/webp") THEN "image/webp"
             ELSE IF has("image/gif") THEN "image/gif"
             ELSE "image/jpeg"

\* main.py:602, 608
image_data(img) ==
    IF ~starts_with_data(img) THEN img
    ELSE SubSeq(img, Min(comma_at(img)) + 1, Len(img))

\* the images left out of the content
text_only_content(text, imgs) == [kind |-> "str", text |-> text]

\* main.py:594-611: a plain string without images, else the image blocks
\* followed by one text block
build_content(text, imgs) ==
    IF imgs = <<>> THEN [kind |-> "str", text |-> text]
    ELSE [kind |-> "blocks",
          blocks |-> [i \in 1..Len(imgs) |->
                        [type |-> "image",
                         source |-> [type |-> "base64",
                                     media_type |-> image_media_type(imgs[i]),
                                     data |-> image_data(imgs[i])]]]
                     \o <<[type |-> "text", text |-> text]>>]

build_content_raises(imgs) == \E i \in 1..Len(imgs) : image_raises(imgs[i])

\* main.py:617: msg.get("images", [])
msg_images(msg) == IF "images" \in DOMAIN msg THEN msg.images ELSE <<>>

\* main.py:614-615: `if history: for msg in history[:-1]`
replayed(history) ==
    IF history = <<>> THEN <<>> ELSE SubSeq(history, 1, Len(history) - 1)

\* main.py:615-623
RECURSIVE history_messages(_)
history_messages(turns) ==
    IF turns = <<>> THEN <<>>
    ELSE LET msg == Head(turns)
             entry == IF msg.type = "user"
                      THEN <<[role |-> "user",
                              content |-> build_content(msg.message, msg_images(msg))]>>
                      ELSE IF msg.type = "assistant"
                      THEN <<[role |-> "assistant",
                              content |-> [kind |-> "str", text |-> msg.message]]>>
                      ELSE <<>>
         IN  entry \o history_messages(Tail(turns))

\* Optional list: `images or []`
or_empty(images) == IF images = None THEN <<>> ELSE images[1]

\* main.py:613-629
compose_messages(user_message, history, images) ==
    history_messages(replayed(history))
      \o <<[role |-> "user", content |-> build_content(user_message, or_empty(images))]>>

\* an exception leaves call_claude before the request is posted
compose_raises(history, images) ==
    \/ \E i \in 1..Len(replayed(history)) :
          /\ history[i].type = "user"
          /\ build_content_raises(msg_images(history[i]))
    \/ build_content_raises(or_empty(images))

\* the vision model chosen for every call
vision_always(images) == VISION_MODEL

\* main.py:592
select_model(images) == IF or_empty(images) # <<>> THEN VISION_MODEL ELSE CLAUDE_MODEL

----------------------------------------------------------------------------
(* Inputs *)

\* the worker threads that run chat(): two, the number a race takes
Reqs == {1, 2}

\* session identifiers a client makes up itself
ClientIds == {"s1"}

\* uuid4 values in the order generate_session_id returns them
UuidPool == <<"uuid-1", "uuid-2", "uuid-3", "uuid-4", "uuid-5", "uuid-6", "uuid-7", "uuid-8">>

PngUri == <<"data:", "image/png", ";base64", ",", "iVBORw0KGgo=">>
NoCommaUri == <<"data:", "image/gif", ";base64">>
BarePayload == <<"/9j/4AAQSkZJRg==">>

\* bodies of POST /chat (class Chat) with the peer address of the connection
ChatBodies ==
    { [prompt |-> <<>>, user_name |-> None, images |-> None,
       client |-> Some("203.0.113.7")],
      [prompt |-> <<" ", "\n">>, user_name |-> None, images |-> None,
       client |-> Some("203.0.113.7")],
      [prompt |-> <<" ", "C", "o", "s", "t", "?">>, user_name |-> Some(<<"A", "l">>),
       images |-> Some(<<PngUri, BarePayload>>), client |-> Some("203.0.113.7")],
      [prompt |-> <<"o", "k">>, user_name |-> None, images |-> Some(<<NoCommaUri>>),
       client |-> Some("203.0.113.7")] }

\* the bodies of the one-at-a-time specification: those, and a prompt without
\* keyword and without images
SeqChatBodies ==
    ChatBodies \cup
    { [prompt |-> <<" ", "o", "k">>, user_name |-> Some(<<>>), images |-> None,
       client |-> None] }

\* bodies for the keyword rules: rejected, blank, no keyword, a purchase
\* keyword, a social keyword, and one of each
ReplyBodies ==
    { body \in SeqChatBodies : body.images # Some(<<NoCommaUri>>) } \cup
    { [prompt |-> <<"R", "e", "v", "i", "e", "w", "s">>,
       user_name |-> None, images |-> None, client |-> None],
      [prompt |-> <<"c", "o", "s", "t", " ", "F", "a", "c", "e", "b", "o", "o", "k">>,
       user_name |-> None, images |-> None, client |-> None] }

\* values of Chat.session_id: absent, empty, or an identifier the client knows
SessionIdInputs == {None, Some("")} \cup {Some(s) : s \in known_ids}

\* texts the provider returns in data["content"][0]["text"]
UpstreamTexts == { <<" ">>, <<"6", "f", "t", "\n">> }

\* failures of the upstream call other than a timeout
UpstreamFailures == {"network", "http_error", "malformed"}

\* bodies of POST /live-quote (class LiveQuoteRequest)
LiveQuoteBodies ==
    { [user_name |-> <<"B", "o">>,
       phone |-> <<"8", "3", "2", "5", "5", "5", "0", "1", "0", "0">>,
       service_needed |-> <<"g", "a", "t", "e">>],
      [user_name |-> <<"B">>,
       phone |-> <<"8", "3", "2", "5", "5", "5", "0", "1", "0", "0">>,
       service_needed |-> <<"g", "a", "t", "e">>] }

----------------------------------------------------------------------------
(* The session store *)

\* every key of the dict bound to the one value
put_shared(d, key, value) == [k \in DOMAIN d \cup {key} |-> value]

\* d[key] = value on a dict
put(d, key, value) == [k \in DOMAIN d \cup {key} |-> IF k = key THEN value ELSE d[k]]

\* class Chat: prompt: str = Field(..., min_length=1, max_length=4000)
chat_valid(body) == Len(body.prompt) >= PromptMinLen /\ Len(body.prompt) <= PromptMaxLen

\* class LiveQuoteRequest
live_quote_valid(body) ==
    /\ Len(body.user_name) >= NameMinLen /\ Len(body.user_name) <= NameMaxLen
    /\ Len(body.phone) >= PhoneMinLen /\ Len(body.phone) <= PhoneMaxLen
    /\ Len(body.service_needed) >= 1 /\ Len(body.service_needed) <= 200

\* generate_session_id returning the same identifier on every call
repeated_session_id == UuidPool[1]

\* main.py:642-643
generate_session_id == UuidPool[uuid_count + 1]

\* main.py:704: `req.session_id or generate_session_id()`
session_given(sid_opt) == sid_opt # None /\ sid_opt[1] # ""

\* main.py:712, 937: request.client.host if request.client else ""
client_host(client) == IF client # None THEN client[1] ELSE ""

\* a session that is created with a turn already counted
counted_session(user_name, client, now) ==
    [created |-> now,
     user_name |-> IF user_name # None /\ user_name[1] # <<>>
                   THEN user_name[1] ELSE <<"V", "i", "s", "i", "t", "o", "r">>,
     message_count |-> 1,
     last_activity |-> now,
     ip |-> client_host(client),
     messages |-> <<>>]

\* main.py:707-714
new_session(user_name, client, now) ==
    [created |-> now,
     user_name |-> IF user_name # None /\ user_name[1] # <<>>
                   THEN user_name[1] ELSE <<"V", "i", "s", "i", "t", "o", "r">>,
     message_count |-> 0,
     last_activity |-> now,
     ip |-> client_host(client),
     messages |-> <<>>]

\* main.py:931-939
live_quote_session(body, client, now) ==
    [created |-> now,
     user_name |-> body.user_name, phone |-> body.phone,
     type |-> "live_quote_request", status |-> "callback_requested",
     service_needed |-> body.service_needed,
     last_activity |-> now,
     ip |-> client_host(client),
     priority |-> "high"]

\* main.py:718-723.  The "timestamp" of a turn is written and never read by
\* the program; the model leaves it out of the turn.
user_turn(prompt, images) ==
    [type |-> "user", message |-> prompt, images |-> or_empty(images)]

\* main.py:727-731, 745-749, 760, 766
assistant_turn(text) ==
    [type |-> "assistant", message |-> text]

\* d["messages"].append(turn) on the session dict d
appended(d, turn) == [d EXCEPT !.messages = Append(@, turn)]

\* `message_count += 1` storing the count it loaded
not_incremented(count) == count

\* main.py:717: the value stored by `message_count += 1`
incremented(count) == count + 1

has_key(sid, key) == key \in DOMAIN active_sessions[sid]

\* how many dict objects have been assigned to key sid so far
assigned(sid) == IF sid \in DOMAIN session_obj THEN session_obj[sid] ELSE 0

calls_of(sid) == IF sid \in DOMAIN calls THEN calls[sid] ELSE 0

----------------------------------------------------------------------------
(* Request slots *)

IdleReq ==
    [pc |-> "idle", prompt |-> <<>>, session_id |-> "", sid_given |-> FALSE,
     blank |-> FALSE, user_name |-> None, images |-> None, client |-> None,
     count_obj |-> 0, count_val |-> 0, user_pos |-> 0, user_obj |-> 0,
     sent |-> None, upstream_calls |-> 0, outcome |-> "none",
     upstream_text |-> <<>>, ai_response |-> <<>>, own_turns |-> <<>>,
     response |-> None]

\* the two lead handlers that can run at once
LeadReqs == {1, 2}

IdleLead ==
    [pc |-> "idle", kind |-> "", name |-> <<>>, details |-> <<>>, photos |-> 0,
     lead_id |-> 0, timestamp |-> 0, tried |-> {}, failed |-> {}, response |-> None]

Init ==
    /\ active_sessions = <<>>
    /\ session_obj = <<>>
    /\ uuid_count = 0
    /\ clock = 0
    /\ known_ids = ClientIds
    /\ calls = <<>>
    /\ req = [r \in Reqs |-> IdleReq]
    /\ recent_leads = <<>>
    /\ leads_file = <<>>
    /\ posted = [url \in {SHEETS_API_URL, BREVO_API_URL} |-> <<>>]
    /\ added = <<>>
    /\ lead_req = [s \in LeadReqs |-> IdleLead]

AllIdle == \A r \in Reqs : req[r].pc = "idle"

\* the worker thread that takes the next request: the first idle one
free_slot(r) == req[r].pc = "idle" /\ \A q \in Reqs : q < r => req[q].pc # "idle"

\* the response FastAPI sends when the handler raises: 500
unhandled == [status |-> 500, body |-> [detail |-> "Internal Server Error"]]

\* the response FastAPI sends when the body violates the declared fields: 422
unprocessable == [status |-> 422, body |-> [detail |-> "validation error"]]

ok_json(body) == [status |-> 200, body |-> body]

finish(r, resp) == [req EXCEPT ![r].pc = "done", ![r].response = Some(resp)]

----------------------------------------------------------------------------
(* POST /chat, main.py:701-767.  chat() is a plain `def`, so the server   *)
(* runs each call on a worker thread; the steps below are its statements   *)
(* that read or write the shared store, and threads interleave between     *)
(* them.                                                                   *)

\* the store being held by a request for as long as its upstream call runs
held_during_call(r) == \A q \in Reqs \ {r} : req[q].pc # "await"

\* main.py:701-767: chat() takes no lock; a statement that reads or writes
\* the store runs whenever its thread does, whatever the other requests do
store_available(r) == TRUE

\* req[r].own_turns: the turns that the call in slot r has appended so far, to
\* whichever dict active_sessions[session_id] was at the time of the append

\* The body violates the declared fields: rejected before chat() is called.
ChatReject(r, body, sid_opt) ==
    /\ free_slot(r)
    /\ ~chat_valid(body)
    /\ clock' = clock + 1
    /\ req' = [finish(r, unprocessable) EXCEPT ![r].blank = (strip(body.prompt) = <<>>)]
    /\ UNCHANGED <<active_sessions, session_obj, uuid_count, known_ids, calls>>
    /\ UNCHANGED lead_vars

\* main.py:703-706: strip the prompt, take or generate the identifier, test
\* `session_id not in active_sessions`
ChatReceive(r, body, sid_opt) ==
    /\ free_slot(r)
    /\ chat_valid(body)
    /\ session_given(sid_opt) \/ uuid_count < Len(UuidPool)
    /\ LET given == session_given(sid_opt)
           sid == IF given THEN sid_opt[1] ELSE generate_session_id
       IN  /\ uuid_count' = IF given THEN uuid_count ELSE uuid_count + 1
           /\ calls' = put(calls, sid, calls_of(sid) + 1)
           /\ req' = [req EXCEPT ![r] =
                        [IdleReq EXCEPT
                           !.pc = IF sid \in DOMAIN active_sessions THEN "touch" ELSE "create",
                           !.prompt = strip(body.prompt),
                           !.blank = (strip(body.prompt) = <<>>),
                           !.session_id = sid,
                           !.sid_given = given,
                           !.user_name = body.user_name,
                           !.images = body.images,
                           !.client = body.client]]
    /\ clock' = clock + 1
    /\ UNCHANGED <<active_sessions, session_obj, known_ids>>
    /\ UNCHANGED lead_vars

\* main.py:707-714
ChatCreate(r) ==
    /\ req[r].pc = "create"
    /\ store_available(r)
    /\ active_sessions' = put(active_sessions, req[r].session_id,
                              new_session(req[r].user_name, req[r].client, clock))
    /\ session_obj' = put(session_obj, req[r].session_id, assigned(req[r].session_id) + 1)
    /\ req' = [req EXCEPT ![r].pc = "touch"]
    /\ UNCHANGED <<uuid_count, clock, known_ids, calls>>
    /\ UNCHANGED lead_vars

\* main.py:716
ChatTouch(r) ==
    /\ req[r].pc = "touch"
    /\ store_available(r)
    /\ active_sessions' = [active_sessions EXCEPT ![req[r].session_id].last_activity = clock]
    /\ req' = [req EXCEPT ![r].pc = "count_read"]
    /\ UNCHANGED <<session_obj, uuid_count, clock, known_ids, calls>>
    /\ UNCHANGED lead_vars

\* main.py:717, the load of `message_count += 1`; KeyError leaves the handler
ChatCountRead(r) ==
    /\ req[r].pc = "count_read"
    /\ store_available(r)
    /\ LET sid == req[r].session_id
       IN  IF has_key(sid, "message_count")
           THEN req' = [req EXCEPT ![r].pc = "count_write",
                                   ![r].count_obj = session_obj[sid],
                                   ![r].count_val = active_sessions[sid].message_count]
           ELSE req' = finish(r, unhandled)
    /\ UNCHANGED <<active_sessions, session_obj, uuid_count, clock, known_ids, calls>>
    /\ UNCHANGED lead_vars

\* main.py:717, the store of `message_count += 1`, into the dict that was
\* loaded from: one that is no longer in the store takes the write unseen.
\* The loaded dict and count are temporaries of the statement, gone after it.
ChatCountWrite(r) ==
    /\ req[r].pc = "count_write"
    /\ store_available(r)
    /\ LET sid == req[r].session_id
       IN  active_sessions' =
             IF session_obj[sid] = req[r].count_obj
             THEN [active_sessions EXCEPT ![sid].message_count = incremented(req[r].count_val)]
             ELSE active_sessions
    /\ req' = [req EXCEPT ![r].pc = "append_user", ![r].count_obj = 0, ![r].count_val = 0]
    /\ UNCHANGED <<session_obj, uuid_count, clock, known_ids, calls>>
    /\ UNCHANGED lead_vars

\* main.py:718-725
ChatAppendUser(r) ==
    /\ req[r].pc = "append_user"
    /\ store_available(r)
    /\ LET sid == req[r].session_id
       IN  IF has_key(sid, "messages")
           THEN /\ active_sessions' =
                     [active_sessions EXCEPT
                        ![sid] = appended(@, user_turn(req[r].prompt, req[r].images))]
                /\ req' = [req EXCEPT
                             ![r].pc = IF req[r].prompt = <<>> THEN "empty" ELSE "call",
                             ![r].user_pos = Len(active_sessions[sid].messages) + 1,
                             ![r].user_obj = session_obj[sid],
                             ![r].own_turns = Append(@, user_turn(req[r].prompt,
                                                                  req[r].images))]
           ELSE /\ req' = finish(r, unhandled)
                /\ UNCHANGED active_sessions
    /\ UNCHANGED <<session_obj, uuid_count, clock, known_ids, calls>>
    /\ UNCHANGED lead_vars

\* main.py:726-732
ChatEmptyPrompt(r) ==
    /\ req[r].pc = "empty"
    /\ store_available(r)
    /\ LET sid == req[r].session_id
       IN  IF has_key(sid, "messages")
           THEN /\ active_sessions' =
                     [active_sessions EXCEPT
                        ![sid] = appended(@, assistant_turn(fallback_response))]
                /\ req' = [finish(r, ok_json([response |-> fallback_response,
                                              session_id |-> sid,
                                              business |-> BUSINESS_NAME]))
                             EXCEPT ![r].own_turns =
                                        Append(@, assistant_turn(fallback_response))]
           ELSE /\ req' = finish(r, unhandled)
                /\ UNCHANGED active_sessions
    /\ UNCHANGED <<session_obj, uuid_count, clock, known_ids, calls>>
    /\ UNCHANGED lead_vars

\* main.py:735 and 586-637: read the transcript, compose the request, post it
ChatCall(r) ==
    /\ req[r].pc = "call"
    /\ store_available(r)
    /\ LET sid == req[r].session_id
       IN  IF ~has_key(sid, "messages")
           THEN req' = [req EXCEPT ![r].pc = "except_other"]
           ELSE LET history == active_sessions[sid].messages
                IN  IF compose_raises(history, req[r].images)
                    THEN req' = [req EXCEPT ![r].pc = "except_other"]
                    ELSE req' = [req EXCEPT
                                   ![r].pc = "await",
                                   ![r].upstream_calls = @ + 1,
                                   ![r].sent = Some(
                                       [model |-> select_model(req[r].images),
                                        messages |-> compose_messages(req[r].prompt, history,
                                                                      req[r].images)])]
    /\ UNCHANGED <<active_sessions, session_obj, uuid_count, clock, known_ids, calls>>
    /\ posted' = IF req'[r].pc = "await"
                 THEN requests_post(posted, ANTHROPIC_API_URL, req'[r].sent[1])
                 ELSE posted
    /\ UNCHANGED <<recent_leads, leads_file, added, lead_req>>

\* call_claude has returned or raised: its message list is gone, and with it
\* what the model noted about the call's own user turn
returned(rec) == [rec EXCEPT !.sent = None, !.user_pos = 0, !.user_obj = 0]

\* main.py:637-640 and 736-743: the provider answers; the text is stripped,
\* replaced when empty, and extended by the keyword suffixes
UpstreamOk(r, text) ==
    /\ req[r].pc = "await"
    /\ req' = [req EXCEPT ![r] = [returned(@) EXCEPT !.pc = "append_reply",
                          !.outcome = "ok",
                          !.upstream_text = text,
                          !.ai_response =
                              success_text(strip(text),
                                           keyword_text(req[r].prompt,
                                                        active_sessions[req[r].session_id].messages))]]
    /\ UNCHANGED <<active_sessions, session_obj, uuid_count, clock, known_ids, calls>>
    /\ UNCHANGED lead_vars

\* main.py:637: requests.post raises requests.exceptions.Timeout
UpstreamTimeout(r) ==
    /\ req[r].pc = "await"
    /\ req' = [req EXCEPT ![r] = [returned(@) EXCEPT !.pc = "except_timeout",
                                                      !.outcome = "timeout"]]
    /\ UNCHANGED <<active_sessions, session_obj, uuid_count, clock, known_ids, calls>>
    /\ UNCHANGED lead_vars

\* the failed call being made again instead of being handled
retry_call == "call"

\* main.py:763: where an exception raised by call_claude takes the handler
except_exception == "except_other"

\* main.py:637-640: connection error, non-2xx status (raise_for_status) or a
\* body without content[0].text
UpstreamFails(r, kind) ==
    /\ req[r].pc = "await"
    /\ req' = [req EXCEPT ![r] = [returned(@) EXCEPT !.pc = except_exception,
                                                      !.outcome = kind]]
    /\ UNCHANGED <<active_sessions, session_obj, uuid_count, clock, known_ids, calls>>
    /\ UNCHANGED lead_vars

\* main.py:745-749; KeyError is caught by `except Exception`
ChatAppendReply(r) ==
    /\ req[r].pc = "append_reply"
    /\ store_available(r)
    /\ LET sid == req[r].session_id
       IN  IF has_key(sid, "messages")
           THEN /\ active_sessions' =
                     [active_sessions EXCEPT
                        ![sid] = appended(@, assistant_turn(req[r].ai_response))]
                /\ req' = [req EXCEPT
                             ![r].pc = "ret",
                             ![r].own_turns = Append(@, assistant_turn(req[r].ai_response))]
           ELSE /\ req' = [req EXCEPT ![r].pc = "except_other"]
                /\ UNCHANGED active_sessions
    /\ UNCHANGED <<session_obj, uuid_count, clock, known_ids, calls>>
    /\ UNCHANGED lead_vars

\* main.py:751-756; KeyError is caught by `except Exception`
ChatReturnSuccess(r) ==
    /\ req[r].pc = "ret"
    /\ store_available(r)
    /\ LET sid == req[r].session_id
       IN  IF has_key(sid, "message_count")
           THEN req' = finish(r, ok_json([response |-> req[r].ai_response,
                                          session_id |-> sid,
                                          message_count |-> active_sessions[sid].message_count,
                                          business |-> BUSINESS_NAME]))
           ELSE req' = [req EXCEPT ![r].pc = "except_other"]
    /\ UNCHANGED <<active_sessions, session_obj, uuid_count, clock, known_ids, calls>>
    /\ UNCHANGED lead_vars

\* main.py:758-761; KeyError raised in the handler leaves chat()
ChatExceptTimeout(r) ==
    /\ req[r].pc = "except_timeout"
    /\ store_available(r)
    /\ LET sid == req[r].session_id
       IN  IF has_key(sid, "messages")
           THEN /\ active_sessions' =
                     [active_sessions EXCEPT
                        ![sid] = appended(@, assistant_turn(timeout_response))]
                /\ req' = [finish(r, ok_json([response |-> timeout_response,
                                              session_id |-> sid]))
                             EXCEPT ![r].own_turns = Append(@, assistant_turn(timeout_response))]
           ELSE /\ req' = finish(r, unhandled)
                /\ UNCHANGED active_sessions
    /\ UNCHANGED <<session_obj, uuid_count, clock, known_ids, calls>>
    /\ UNCHANGED lead_vars

\* main.py:763-767; KeyError raised in the handler leaves chat()
ChatExceptOther(r) ==
    /\ req[r].pc = "except_other"
    /\ store_available(r)
    /\ LET sid == req[r].session_id
       IN  IF has_key(sid, "messages")
           THEN /\ active_sessions' =
                     [active_sessions EXCEPT
                        ![sid] = appended(@, assistant_turn(error_response))]
                /\ req' = [finish(r, ok_json([response |-> error_response,
                                              session_id |-> sid]))
                             EXCEPT ![r].own_turns = Append(@, assistant_turn(error_response))]
           ELSE /\ req' = finish(r, unhandled)
                /\ UNCHANGED active_sessions
    /\ UNCHANGED <<session_obj, uuid_count, clock, known_ids, calls>>
    /\ UNCHANGED lead_vars

\* The response reaches the client, which learns the session identifier in it;
\* the worker thread is free again.
ChatDone(r) ==
    /\ req[r].pc = "done"
    /\ LET body == req[r].response[1].body
       IN  known_ids' = IF "session_id" \in DOMAIN body
                        THEN known_ids \cup {body.session_id} ELSE known_ids
    /\ req' = [req EXCEPT ![r] = IdleReq]
    /\ UNCHANGED <<active_sessions, session_obj, uuid_count, clock, calls>>
    /\ UNCHANGED lead_vars

----------------------------------------------------------------------------
(* POST /live-quote, main.py:928-953: one store into active_sessions *)

LiveQuoteReject(sid, body, client) ==
    /\ ~live_quote_valid(body)
    /\ clock' = clock + 1
    /\ UNCHANGED <<active_sessions, session_obj, uuid_count, known_ids, calls, req>>
    /\ UNCHANGED lead_vars

LiveQuote(sid, body, client) ==
    /\ live_quote_valid(body)
    /\ clock' = clock + 1
    /\ active_sessions' = put(active_sessions, sid, live_quote_session(body, client, clock))
    /\ session_obj' = put(session_obj, sid, assigned(sid) + 1)
    /\ UNCHANGED <<uuid_count, known_ids, calls, req>>
    /\ UNCHANGED lead_vars

----------------------------------------------------------------------------
(* POST /lead (main.py:770-832) and POST /lead-with-photos (835-925).      *)
(* submit_lead is a plain `def` and runs on a worker thread;               *)
(* submit_lead_with_photos is `async def` and runs on the event loop,      *)
(* without an await after its photos are read, so one call of it at a time *)
(* is between its CSV write and its return.  Threads interleave between    *)
(* the statements below.                                                   *)

\* bodies of POST /lead (class Lead): an accepted one and one whose name is
\* too short
LeadBodies ==
    { [name |-> <<" ", "A", "l">>,
       details |-> <<"n", "e", "w", " ", "f", "e", "n", "c", "e", " ">>],
      [name |-> <<"A">>,
       details |-> <<"n", "e", "w", " ", "f", "e", "n", "c", "e", " ">>] }

\* forms of POST /lead-with-photos, with the number of photos uploaded
PhotoForms ==
    { [name |-> <<"B", "o">>, details |-> <<"g", "a", "t", "e">>, photos |-> n] :
        n \in {0, 1} }

\* class Lead
lead_valid(body) ==
    /\ Len(body.name) >= LeadNameMinLen /\ Len(body.name) <= LeadNameMaxLen
    /\ Len(body.details) >= DetailsMinLen /\ Len(body.details) <= DetailsMaxLen

free_lead_slot(s) ==
    /\ lead_req[s].pc = "idle"
    /\ \A t \in LeadReqs : t < s => lead_req[t].pc # "idle"

\* main.py:868: the note appended to the details in the CSV and sheet rows
details_with_note(rec) ==
    strip(rec.details) \o
      (IF rec.photos > 0 THEN <<" [", ToString(rec.photos), " photo(s) attached]">> ELSE <<>>)

\* main.py:780-782, 873-875: the row written to the CSV file and to the sheet
lead_row(rec) ==
    [timestamp |-> rec.timestamp, name |-> strip(rec.name),
     details |-> IF rec.kind = "photos" THEN details_with_note(rec) ELSE strip(rec.details),
     lead_id |-> rec.lead_id, status |-> "new"]

\* main.py:793-798, 886-891
lead_data(rec) ==
    LET common == [id |-> rec.lead_id, timestamp |-> rec.timestamp,
                   name |-> strip(rec.name), details |-> strip(rec.details),
                   status |-> "new"]
    IN  IF rec.kind = "photos"
        THEN [k \in DOMAIN common \cup {"photos"} |->
                IF k = "photos" THEN rec.photos ELSE common[k]]
        ELSE common

\* main.py:810-819, 902-912
lead_email(rec) == [lead_id |-> rec.lead_id, attachments |-> rec.photos]

\* main.py:823-828, 917-921
lead_ok(rec) ==
    LET common == [ok |-> TRUE, lead_id |-> rec.lead_id, business |-> BUSINESS_NAME,
                   phone |-> BUSINESS_PHONE, email |-> BUSINESS_EMAIL]
    IN  ok_json(IF rec.kind = "photos"
                THEN [k \in DOMAIN common \cup {"photos_received"} |->
                        IF k = "photos_received" THEN rec.photos ELSE common[k]]
                ELSE common)

\* main.py:830-832, 923-925
lead_failed == [status |-> 500, body |-> [detail |-> "Failed to submit lead request"]]

\* main.py:801, 893: list.pop(0)
pop_0(list) == Tail(list)

\* a failed CSV write leaving the handler through its outer `except`
csv_error_raised == "except"

\* main.py:783-784, 876-877: the CSV error is logged and the handler goes on
csv_error_logged == "sheets"

\* The body violates class Lead: rejected before submit_lead is called.
LeadReject(s, body) ==
    /\ free_lead_slot(s)
    /\ ~lead_valid(body)
    /\ clock' = clock + 1
    /\ lead_req' = [lead_req EXCEPT ![s] = [IdleLead EXCEPT !.pc = "done", !.kind = "lead",
                                                           !.response = Some(unprocessable)]]
    /\ UNCHANGED <<recent_leads, leads_file, posted, added>>
    /\ UNCHANGED chat_vars

\* main.py:773-775: the timestamp and the lead id
LeadReceive(s, body) ==
    /\ free_lead_slot(s)
    /\ lead_valid(body)
    /\ clock' = clock + 1
    /\ lead_req' = [lead_req EXCEPT ![s] =
                      [IdleLead EXCEPT !.pc = "csv", !.kind = "lead", !.name = body.name,
                                       !.details = body.details,
                                       !.lead_id = clock', !.timestamp = clock']]
    /\ UNCHANGED <<recent_leads, leads_file, posted, added>>
    /\ UNCHANGED chat_vars

\* main.py:853-866: the timestamp, the lead id and the photos read; a read
\* that raises takes the handler to its outer `except`
PhotosReceive(s, form, read_ok) ==
    /\ free_lead_slot(s)
    /\ \A t \in LeadReqs : lead_req[t].kind = "photos" => lead_req[t].pc \in {"idle", "done"}
    /\ read_ok \/ form.photos > 0
    /\ clock' = clock + 1
    /\ lead_req' = [lead_req EXCEPT ![s] =
                      [IdleLead EXCEPT !.pc = IF read_ok THEN "csv" ELSE "except",
                                       !.kind = "photos", !.name = form.name,
                                       !.details = form.details, !.photos = form.photos,
                                       !.lead_id = clock', !.timestamp = clock']]
    /\ UNCHANGED <<recent_leads, leads_file, posted, added>>
    /\ UNCHANGED chat_vars

\* main.py:777-784, 870-877: the row is appended to the file, or the write
\* raises and the error is logged
LeadCsv(s, ok) ==
    /\ lead_req[s].pc = "csv"
    /\ leads_file' = IF ok THEN Append(leads_file, lead_row(lead_req[s])) ELSE leads_file
    /\ lead_req' = [lead_req EXCEPT
                      ![s].pc = IF ok THEN "sheets" ELSE csv_error_logged,
                      ![s].tried = @ \cup {"csv"},
                      ![s].failed = IF ok THEN @ ELSE @ \cup {"csv"}]
    /\ UNCHANGED <<recent_leads, posted, added, clock>>
    /\ UNCHANGED chat_vars

\* main.py:786-791 and 64-76: the row is posted to the sheet, or the token or
\* the post fails and append_lead_to_sheets logs the error
LeadSheets(s, ok) ==
    /\ lead_req[s].pc = "sheets"
    /\ posted' = IF ok THEN requests_post(posted, SHEETS_API_URL, lead_row(lead_req[s]))
                 ELSE posted
    /\ lead_req' = [lead_req EXCEPT
                      ![s].pc = "append",
                      ![s].tried = @ \cup {"sheets"},
                      ![s].failed = IF ok THEN @ ELSE @ \cup {"sheets"}]
    /\ UNCHANGED <<recent_leads, leads_file, added, clock>>
    /\ UNCHANGED chat_vars

\* main.py:799, 886
LeadAppend(s) ==
    /\ lead_req[s].pc = "append"
    /\ recent_leads' = Append(recent_leads, lead_data(lead_req[s]))
    /\ added' = Append(added, lead_req[s].lead_id)
    /\ lead_req' = [lead_req EXCEPT ![s].pc = "check"]
    /\ UNCHANGED <<leads_file, posted, clock>>
    /\ UNCHANGED chat_vars

\* main.py:800, 892
LeadCheck(s) ==
    /\ lead_req[s].pc = "check"
    /\ lead_req' = [lead_req EXCEPT
                      ![s].pc = IF Len(recent_leads) > MaxRecentLeads THEN "pop" ELSE "email"]
    /\ UNCHANGED <<recent_leads, leads_file, posted, added, clock>>
    /\ UNCHANGED chat_vars

\* main.py:801, 893; pop(0) of an empty list raises IndexError
LeadPop(s) ==
    /\ lead_req[s].pc = "pop"
    /\ IF recent_leads = <<>>
       THEN /\ lead_req' = [lead_req EXCEPT ![s].pc = "except"]
            /\ UNCHANGED recent_leads
       ELSE /\ recent_leads' = pop_0(recent_leads)
            /\ lead_req' = [lead_req EXCEPT ![s].pc = "email"]
    /\ UNCHANGED <<leads_file, posted, added, clock>>
    /\ UNCHANGED chat_vars

\* what send_brevo_email does: posts the email, returns without posting when
\* BREVO_API_KEY is not set, or raises (post or raise_for_status)
EmailOutcomes == {"sent", "no_key", "failed"}

\* main.py:809-828, 901-921 and 645-668: the email, then the response
LeadEmail(s, outcome) ==
    /\ lead_req[s].pc = "email"
    /\ posted' = IF outcome = "sent"
                 THEN requests_post(posted, BREVO_API_URL, lead_email(lead_req[s]))
                 ELSE posted
    /\ lead_req' = [lead_req EXCEPT
                      ![s].pc = "done",
                      ![s].tried = @ \cup {"email"},
                      ![s].failed = IF outcome = "failed" THEN @ \cup {"email"} ELSE @,
                      ![s].response = Some(lead_ok(lead_req[s]))]
    /\ UNCHANGED <<recent_leads, leads_file, added, clock>>
    /\ UNCHANGED chat_vars

\* main.py:830-832, 923-925
LeadExcept(s) ==
    /\ lead_req[s].pc = "except"
    /\ lead_req' = [lead_req EXCEPT ![s].pc = "done", ![s].response = Some(lead_failed)]
    /\ UNCHANGED <<recent_leads, leads_file, posted, added, clock>>
    /\ UNCHANGED chat_vars

\* the response reaches the client
LeadDone(s) ==
    /\ lead_req[s].pc = "done"
    /\ lead_req' = [lead_req EXCEPT ![s] = IdleLead]
    /\ UNCHANGED <<recent_leads, leads_file, posted, added, clock>>
    /\ UNCHANGED chat_vars

LeadStep ==
    \E s \in LeadReqs :
        \/ \E ok \in BOOLEAN : LeadCsv(s, ok)
        \/ \E ok \in BOOLEAN : LeadSheets(s, ok)
        \/ LeadAppend(s)
        \/ LeadCheck(s)
        \/ LeadPop(s)
        \/ \E outcome \in EmailOutcomes : LeadEmail(s, outcome)
        \/ LeadExcept(s)
        \/ LeadDone(s)

----------------------------------------------------------------------------
(* Specifications *)

ChatStep ==
    \E r \in Reqs :
        \/ ChatCreate(r)
        \/ ChatTouch(r)
        \/ ChatCountRead(r)
        \/ ChatCountWrite(r)
        \/ ChatAppendUser(r)
        \/ ChatEmptyPrompt(r)
        \/ ChatCall(r)
        \/ \E text \in UpstreamTexts : UpstreamOk(r, text)
        \/ UpstreamTimeout(r)
        \/ \E kind \in UpstreamFailures : UpstreamFails(r, kind)
        \/ ChatAppendReply(r)
        \/ ChatReturnSuccess(r)
        \/ ChatExceptTimeout(r)
        \/ ChatExceptOther(r)
        \/ ChatDone(r)

LiveQuoteClients == {Some("198.51.100.9")}

\* every endpoint, requests served concurrently
Next ==
    \/ \E r \in Reqs, body \in ChatBodies, sid_opt \in SessionIdInputs :
          clock < MaxRequests /\ ChatReject(r, body, sid_opt)
    \/ \E r \in Reqs, body \in ChatBodies, sid_opt \in SessionIdInputs :
          clock < MaxRequests /\ ChatReceive(r, body, sid_opt)
    \/ ChatStep
    \/ \E sid \in known_ids, body \in LiveQuoteBodies, client \in LiveQuoteClients :
          clock < MaxRequests /\ LiveQuoteReject(sid, body, client)
    \/ \E sid \in known_ids, body \in LiveQuoteBodies, client \in LiveQuoteClients :
          clock < MaxRequests /\ LiveQuote(sid, body, client)

Spec == Init /\ [][Next]_vars

\* chat requests only, served concurrently
NextChat ==
    \/ \E r \in Reqs, body \in ChatBodies, sid_opt \in SessionIdInputs :
          clock < MaxRequests /\ ChatReject(r, body, sid_opt)
    \/ \E r \in Reqs, body \in ChatBodies, sid_opt \in SessionIdInputs :
          clock < MaxRequests /\ ChatReceive(r, body, sid_opt)
    \/ ChatStep

SpecChat == Init /\ [][NextChat]_vars

\* chat requests only, each arriving after the one before it was answered
NextSeq ==
    \/ \E r \in Reqs, body \in SeqChatBodies, sid_opt \in SessionIdInputs :
          AllIdle /\ clock < MaxSeqRequests /\ ChatReject(r, body, sid_opt)
    \/ \E r \in Reqs, body \in SeqChatBodies, sid_opt \in SessionIdInputs :
          AllIdle /\ clock < MaxSeqRequests /\ ChatReceive(r, body, sid_opt)
    \/ ChatStep

SpecSeq == Init /\ [][NextSeq]_vars

\* as SpecSeq, with the bodies that exercise the keyword rules
NextReply ==
    \/ \E r \in Reqs, body \in ReplyBodies, sid_opt \in SessionIdInputs :
          AllIdle /\ clock < MaxReplyRequests /\ ChatReject(r, body, sid_opt)
    \/ \E r \in Reqs, body \in ReplyBodies, sid_opt \in SessionIdInputs :
          AllIdle /\ clock < MaxReplyRequests /\ ChatReceive(r, body, sid_opt)
    \/ ChatStep

SpecReply == Init /\ [][NextReply]_vars

\* accepted bodies without images: a blank prompt and a plain question
RaceBodies == { body \in SeqChatBodies : chat_valid(body) /\ body.images = None }

\* accepted chat and live-quote requests, served concurrently, all
\* of them on the one identifier that the clients know from the start
NextRace ==
    \/ \E r \in Reqs, body \in RaceBodies, sid \in ClientIds :
          clock < MaxRaceRequests /\ ChatReceive(r, body, Some(sid))
    \/ ChatStep
    \/ \E sid \in ClientIds, body \in LiveQuoteBodies, client \in LiveQuoteClients :
          clock < MaxRaceRequests /\ LiveQuote(sid, body, client)

SpecRace == Init /\ [][NextRace]_vars

\* the request that POST /lead number n was
stored_lead(n) ==
    [IdleLead EXCEPT !.kind = "lead", !.lead_id = n, !.timestamp = n,
                     !.name = <<" ", "A", "l">>,
                     !.details = <<"n", "e", "w", " ", "f", "e", "n", "c", "e", " ">>]

\* the state after MaxRecentLeads - 1 accepted POST /lead requests, served
\* one after the other while no sink was working: the list is one entry
\* short of its limit
InitFull ==
    LET n == MaxRecentLeads - 1
    IN  /\ active_sessions = <<>>
        /\ session_obj = <<>>
        /\ uuid_count = 0
        /\ clock = n
        /\ known_ids = ClientIds
        /\ calls = <<>>
        /\ req = [r \in Reqs |-> IdleReq]
        /\ recent_leads = [i \in 1..n |-> lead_data(stored_lead(i))]
        /\ leads_file = <<>>
        /\ posted = [url \in {SHEETS_API_URL, BREVO_API_URL} |-> <<>>]
        /\ added = [i \in 1..n |-> i]
        /\ lead_req = [s \in LeadReqs |-> IdleLead]

\* the forms that carry a photo
FullForms == { form \in PhotoForms : form.photos > 0 }

\* the lead endpoints, serving concurrently the requests that follow them
NextLeadFull ==
    \/ \E s \in LeadReqs, body \in LeadBodies :
          clock < MaxRecentLeads - 1 + MaxFullRequests /\ LeadReject(s, body)
    \/ \E s \in LeadReqs, body \in LeadBodies :
          clock < MaxRecentLeads - 1 + MaxFullRequests /\ LeadReceive(s, body)
    \/ \E s \in LeadReqs, form \in FullForms, read_ok \in BOOLEAN :
          clock < MaxRecentLeads - 1 + MaxFullRequests /\ PhotosReceive(s, form, read_ok)
    \/ LeadStep

SpecLeadFull == InitFull /\ [][NextLeadFull]_vars

----------------------------------------------------------------------------
(* Vocabulary of the properties *)

\* no chat call is between its first and its last statement
Quiescent == \A r \in Reqs : req[r].pc \in {"idle", "done"}

\* slot r holds a call that passed field validation
Accepted(r) == req[r].session_id # ""

\* slot r holds a call that has ended and whose answer is not yet delivered
Ended(r) == Accepted(r) /\ req[r].pc = "done"

Answer(r) == req[r].response[1]

\* the session dict under sid is one that chat() created
IsChatSession(sid) ==
    /\ sid \in DOMAIN active_sessions
    /\ {"messages", "message_count"} \subseteq DOMAIN active_sessions[sid]

Transcript(sid) == active_sessions[sid].messages

UserTurnCount(sid) ==
    Cardinality({i \in 1..Len(Transcript(sid)) : Transcript(sid)[i].type = "user"})

\* the transcript is user, assistant, user, assistant, ...
Alternates(m) ==
    \A i \in 1..Len(m) : m[i].type = IF i % 2 = 1 THEN "user" ELSE "assistant"

\* text is the message of some assistant turn of the session
Recorded(sid, text) ==
    /\ IsChatSession(sid)
    /\ \E i \in 1..Len(Transcript(sid)) : Transcript(sid)[i] = assistant_turn(text)

\* the text names the value (it holds it as one of its formatted parts)
Names(text, value) == \E i \in 1..Len(text) : text[i] = value

\* slot r's call was answered with this text, as JSON
AnsweredWith(r, text) ==
    /\ Answer(r).status = 200
    /\ "response" \in DOMAIN Answer(r).body
    /\ Answer(r).body.response = text

----------------------------------------------------------------------------
(* C1 *)

\* C1: when chat calls on one session identifier do not overlap, then after
\* each call has completed the session's message_count equals the number of
\* chat calls made on the identifier and the transcript alternates user,
\* assistant, ... starting with a user turn, whatever the outcomes were.
\* (SpecSeq)
C1_CountAndAlternation ==
    Quiescent =>
        \A sid \in DOMAIN calls :
            /\ IsChatSession(sid)
            /\ active_sessions[sid].message_count = calls[sid]
            /\ Len(Transcript(sid)) = 2 * calls[sid]
            /\ Alternates(Transcript(sid))

\* three calls on one identifier have completed: one by the empty-prompt
\* shortcut, one after a timeout, one after another upstream failure
C1_Witness ==
    /\ Quiescent
    /\ \E sid \in DOMAIN calls :
          /\ calls[sid] >= 3
          /\ Recorded(sid, fallback_response)
          /\ Recorded(sid, timeout_response)
          /\ Recorded(sid, error_response)

----------------------------------------------------------------------------
(* C2 *)

\* C2: every chat request that passes field validation produces a response
\* text; no path of the handler ends in an unhandled error, also when the
\* session identifier was written by a live-quote request before.
C2_AlwaysAnswers ==
    \A r \in Reqs :
        Ended(r) => /\ Answer(r).status = 200
                    /\ "response" \in DOMAIN Answer(r).body

----------------------------------------------------------------------------
(* C3 *)

\* C3: in every reachable transcript each user turn is immediately followed
\* by an assistant turn before the next user turn (the last turn may be a
\* user turn whose call is still running), and no assistant turn stands
\* without the user turn before it, also when concurrent requests carry the
\* same session identifier.  (SpecChat)
C3_UserThenAssistant ==
    \A sid \in DOMAIN active_sessions :
        IsChatSession(sid) =>
            LET m == Transcript(sid)
            IN  \A i \in 1..Len(m) :
                    /\ (m[i].type = "user" /\ i < Len(m)) => m[i + 1].type = "assistant"
                    /\ m[i].type = "assistant" => (i > 1 /\ m[i - 1].type = "user")

----------------------------------------------------------------------------
(* C4 *)

\* C4: under any interleaving of concurrent chat requests a session is
\* created exactly once per identifier, no recorded turn is lost, and the
\* turn count equals the number of user turns in the transcript (stated
\* once the calls have ended).  (SpecChat)
C4_CreatedOnceNothingLost ==
    Quiescent =>
        \A sid \in DOMAIN calls :
            IsChatSession(sid) =>
                /\ session_obj[sid] = 1
                /\ UserTurnCount(sid) = calls[sid]
                /\ active_sessions[sid].message_count = UserTurnCount(sid)

----------------------------------------------------------------------------
(* C5 *)

\* C5: a chat call whose prompt is whitespace-only (empty once stripped)
\* never attempts an upstream call and always returns the fixed clarifying
\* question, which is also recorded as the assistant turn.
C5_BlankPromptShortcut ==
    \A r \in Reqs :
        (Ended(r) /\ req[r].blank) =>
            /\ req[r].upstream_calls = 0
            /\ AnsweredWith(r, fallback_response)
            /\ Recorded(req[r].session_id, fallback_response)

----------------------------------------------------------------------------
(* C6 *)

\* the calls that arrived without a session identifier and are in the handler
Unnamed == {r \in Reqs : Accepted(r) /\ ~req[r].sid_given}

\* C6 as stated: two concurrent chat calls that arrive without a session
\* identifier receive distinct generated identifiers, and each resulting
\* session has a transcript of length 1 after completion.
C6_TranscriptOfOne ==
    /\ \A r1, r2 \in Unnamed : r1 # r2 => req[r1].session_id # req[r2].session_id
    /\ \A r \in Unnamed :
          req[r].pc = "done" =>
              /\ IsChatSession(req[r].session_id)
              /\ Len(Transcript(req[r].session_id)) = 1

\* C6 amended: chat calls that arrive without a session identifier, also
\* concurrent ones, receive distinct generated identifiers; each is answered,
\* and on completion its session has a turn count of 1 and a transcript of
\* exactly two turns, the call's user turn and its assistant turn.
C6_FreshSessionPerCall ==
    /\ \A r1, r2 \in Unnamed : r1 # r2 => req[r1].session_id # req[r2].session_id
    /\ \A r \in Unnamed :
          req[r].pc = "done" =>
              LET sid == req[r].session_id
              IN  /\ Answer(r).status = 200
                  /\ Answer(r).body.session_id = sid
                  /\ IsChatSession(sid)
                  /\ active_sessions[sid].message_count = 1
                  /\ Len(Transcript(sid)) = 2
                  /\ Transcript(sid)[1] = user_turn(req[r].prompt, req[r].images)
                  /\ Transcript(sid)[2] = assistant_turn(Answer(r).body.response)

\* two calls without an identifier ran at the same time and both have ended
C6_Witness ==
    /\ Unnamed = Reqs
    /\ \A r \in Reqs : req[r].pc = "done"

----------------------------------------------------------------------------
(* C7 *)

\* C7: for every chat request that reaches the upstream call, the message
\* list sent upstream is the turns recorded in the session strictly before
\* the request's own user turn, in transcript order, followed by the
\* request's own user turn exactly once as the final message, also when other
\* requests on the same session append turns between the recording of the
\* user turn and the history read.  (SpecChat)
C7_ReplayIsPriorContext ==
    \A r \in Reqs :
        LET sid == req[r].session_id
        IN  (req[r].pc = "await" /\ session_obj[sid] = req[r].user_obj) =>
                req[r].sent[1].messages =
                    history_messages(SubSeq(Transcript(sid), 1, req[r].user_pos - 1))
                      \o <<[role |-> "user",
                            content |-> build_content(req[r].prompt, or_empty(req[r].images))]>>

----------------------------------------------------------------------------
(* C8 *)

\* C8: when the upstream call times out, the chat request returns the fixed
\* 'try again / call us' message containing the business phone number,
\* records that same message as the assistant turn, and raises no error to
\* the caller.
C8_TimeoutAnswered ==
    \A r \in Reqs :
        (Ended(r) /\ req[r].outcome = "timeout") =>
            /\ AnsweredWith(r, timeout_response)
            /\ Names(Answer(r).body.response, BUSINESS_PHONE)
            /\ Recorded(req[r].session_id, timeout_response)

----------------------------------------------------------------------------
(* C9 *)

\* C9: the upstream outcomes are never coerced into one another: a timeout
\* always yields the timeout message; any other upstream failure (network
\* error, non-2xx status, malformed body) always yields the generic apology
\* naming phone and email, recorded as the assistant turn; neither yields
\* the other's message or a success-path response.
C9_OutcomesKeptApart ==
    \A r \in Reqs :
        /\ (Ended(r) /\ req[r].outcome = "timeout") =>
              AnsweredWith(r, timeout_response)
        /\ (Ended(r) /\ req[r].outcome \in UpstreamFailures) =>
              /\ AnsweredWith(r, error_response)
              /\ Names(error_response, BUSINESS_PHONE)
              /\ Names(error_response, BUSINESS_EMAIL)
              /\ Recorded(req[r].session_id, error_response)
        /\ (Ended(r) /\ req[r].outcome \in UpstreamFailures \cup {"timeout"}) =>
              "message_count" \notin DOMAIN Answer(r).body

----------------------------------------------------------------------------
(* C10 *)

\* C10: every return path of a chat request (empty-prompt shortcut, success,
\* empty upstream result, timeout, other failure) yields the response text,
\* the effective session identifier and the session's running turn count.
C10_ReturnsTextIdAndCount ==
    \A r \in Reqs :
        (Ended(r) /\ Answer(r).status = 200) =>
            /\ {"response", "session_id", "message_count"} \subseteq DOMAIN Answer(r).body
            /\ Answer(r).body.session_id = req[r].session_id

----------------------------------------------------------------------------
(* C11 *)

\* C11: every accepted chat request triggers at most one upstream call; no
\* path of the handler or of the gateway makes a second call, whatever the
\* outcome of the first.
C11_AtMostOneUpstreamCall ==
    \A r \in Reqs : req[r].upstream_calls <= 1

\* a call whose one upstream call failed has ended
C11_Witness ==
    \E r \in Reqs :
        /\ Ended(r)
        /\ req[r].outcome \in UpstreamFailures
        /\ req[r].upstream_calls = 1

----------------------------------------------------------------------------
(* C12 *)

\* the transcript of slot r's session holds the user turn of slot r's call
HasUserTurn(r) ==
    /\ IsChatSession(req[r].session_id)
    /\ \E i \in 1..Len(Transcript(req[r].session_id)) :
          Transcript(req[r].session_id)[i] = user_turn(req[r].prompt, req[r].images)

\* C12: the incoming user turn, with its images, is in the session transcript
\* before an upstream call is attempted (so while the call is in flight), and
\* it is still there when the call has timed out or failed.
C12_UserTurnKept ==
    \A r \in Reqs :
        (\/ req[r].pc = "await"
         \/ Ended(r) /\ req[r].outcome \in UpstreamFailures \cup {"timeout"})
            => HasUserTurn(r)

----------------------------------------------------------------------------
(* C13 *)

\* the step in which worker r takes a request into chat() (main.py:703-706)
Receives(r) == req[r].pc = "idle" /\ req'[r].pc \in {"create", "touch"}

\* the step in which worker r stores a new session (main.py:707-714)
Creates(r) == req[r].pc = "create" /\ req'[r].pc = "touch"

\* the step generated an identifier no request, client or session had before
ResolvesFresh(r) ==
    /\ uuid_count' = uuid_count + 1
    /\ req'[r].session_id \notin DOMAIN calls \cup known_ids \cup DOMAIN active_sessions
    /\ req'[r].pc = "create"

\* the step stored an empty session under r's identifier and touched no other
CreatesEmpty(r) ==
    LET sid == req[r].session_id
    IN  /\ DOMAIN active_sessions' = DOMAIN active_sessions \cup {sid}
        /\ active_sessions'[sid].messages = <<>>
        /\ active_sessions'[sid].message_count = 0
        /\ \A other \in DOMAIN active_sessions \ {sid} :
              active_sessions'[other] = active_sessions[other]

\* the parts of the claim that do not depend on who chose the identifier
ResolutionCommon(r) ==
    /\ (Receives(r) /\ req'[r].session_id \in DOMAIN active_sessions) =>
          /\ req'[r].pc = "touch"
          /\ UNCHANGED <<active_sessions, session_obj, uuid_count>>
    /\ Creates(r) => CreatesEmpty(r)
    /\ (req[r].pc \in {"idle", "create"} /\ req'[r].pc = "done") =>
          req'[r].response = Some(unprocessable)

\* C13 as stated: if the request's session identifier is absent or unknown
\* to the store, a new unique identifier is generated and an empty session is
\* created under it; if it is known, the existing session is used and no new
\* session is created; resolution never fails for an unknown identifier.
C13_AbsentOrUnknownGenerates ==
    [][\A r \in Reqs :
          /\ ResolutionCommon(r)
          /\ (Receives(r) /\ req'[r].session_id \notin DOMAIN active_sessions) =>
                ResolvesFresh(r)]_vars

\* C13 amended: if the identifier is absent (or empty) a new unique
\* identifier is generated and an empty session is created under it; if an
\* identifier is supplied that is not in the store when the handler tests it,
\* an empty session is created under the supplied identifier and none is
\* generated; if it is in the store when tested, the existing entry is used
\* and the request creates no session; resolution never fails.
C13_SessionResolution ==
    [][\A r \in Reqs :
          /\ ResolutionCommon(r)
          /\ (Receives(r) /\ req'[r].session_id \notin DOMAIN active_sessions) =>
                IF req'[r].sid_given
                THEN /\ req'[r].session_id \in known_ids
                     /\ req'[r].pc = "create"
                     /\ UNCHANGED uuid_count
                ELSE ResolvesFresh(r)]_vars

\* a session was created under an identifier the client supplied, while
\* another request runs under a generated identifier
C13_Witness ==
    \E r, q \in Reqs :
        /\ req[r].sid_given /\ req[r].pc = "touch"
        /\ calls[req[r].session_id] = 1
        /\ IsChatSession(req[r].session_id)
        /\ session_obj[req[r].session_id] = 1
        /\ Transcript(req[r].session_id) = <<>>
        /\ Accepted(q) /\ ~req[q].sid_given
        /\ IsChatSession(req[q].session_id)

----------------------------------------------------------------------------
(* C14 *)

\* C14: a session, once created, is never destroyed and its transcript is
\* append-only: whatever operation of whatever endpoint runs next, the session
\* is still in the store and every turn recorded in it is still present at
\* the same position of its transcript.
C14_NeverDestroyedAppendOnly ==
    [][\A sid \in DOMAIN active_sessions :
          /\ sid \in DOMAIN active_sessions'
          /\ IsChatSession(sid) =>
                /\ "messages" \in DOMAIN active_sessions'[sid]
                /\ Len(active_sessions'[sid].messages) >= Len(Transcript(sid))
                /\ SubSeq(active_sessions'[sid].messages, 1, Len(Transcript(sid)))
                      = Transcript(sid)]_vars

----------------------------------------------------------------------------
(* Vocabulary of the reply texts *)

\* slot r's call got a text from the provider and has ended
Replied(r) == Ended(r) /\ req[r].outcome = "ok"

\* the text has a character that is not whitespace
NonBlank(text) == \E i \in 1..Len(text) : ~IsSpace(text[i])

\* out is raw without its leading and trailing whitespace
Stripped(raw, out) ==
    \E i \in 1..(Len(raw) + 1), j \in 0..Len(raw) :
        /\ out = SubSeq(raw, i, j)
        /\ \A k \in 1..Len(raw) : (k < i \/ k > j) => IsSpace(raw[k])
        /\ out # <<>> => (~IsSpace(out[1]) /\ ~IsSpace(out[Len(out)]))

\* c is the lower-case letter d or its capital
SameLetter(c, d) ==
    c = d \/ \E k \in 1..Len(UpperCase) : UpperCase[k] = c /\ LowerCase[k] = d

\* the word occurs in the text, whatever the case of the text's letters
Mentions(text, word) ==
    \E i \in 0..(Len(text) - Len(word)) :
        \A k \in 1..Len(word) : SameLetter(text[i + k], word[k])

PurchaseIntent(prompt) == \E word \in quote_words : Mentions(prompt, word)
SocialProof(prompt) == \E word \in social_words : Mentions(prompt, word)

\* the positions at which the part occurs in the text
Occurrences(text, part) ==
    {i \in 0..(Len(text) - Len(part)) : SubSeq(text, i + 1, i + Len(part)) = part}

EndsWith(text, part) ==
    Len(text) >= Len(part) /\ SubSeq(text, Len(text) - Len(part) + 1, Len(text)) = part

----------------------------------------------------------------------------
(* C15 *)

\* C15 as stated: when the upstream call succeeds with non-empty text and the
\* prompt contains none of the purchase-intent or social-proof keywords, the
\* returned and recorded text equals the raw upstream text unchanged.
\* (SpecReply)
C15_RawTextUnchanged ==
    \A r \in Reqs :
        (Replied(r) /\ NonBlank(req[r].upstream_text)
           /\ ~PurchaseIntent(req[r].prompt) /\ ~SocialProof(req[r].prompt)) =>
            /\ AnsweredWith(r, req[r].upstream_text)
            /\ Recorded(req[r].session_id, req[r].upstream_text)

\* C15 amended: in that case the returned and recorded text is the upstream
\* text with its leading and trailing whitespace removed, and nothing else is
\* changed or appended.  (SpecReply)
C15_StrippedTextUnchanged ==
    \A r \in Reqs :
        (Replied(r) /\ NonBlank(req[r].upstream_text)
           /\ ~PurchaseIntent(req[r].prompt) /\ ~SocialProof(req[r].prompt)) =>
            /\ Answer(r).status = 200
            /\ Stripped(req[r].upstream_text, Answer(r).body.response)
            /\ Recorded(req[r].session_id, Answer(r).body.response)

\* a call without keyword was answered with the provider's text, which ended
\* in a newline
C15_Witness ==
    \E r \in Reqs :
        /\ Replied(r) /\ NonBlank(req[r].upstream_text)
        /\ ~PurchaseIntent(req[r].prompt) /\ ~SocialProof(req[r].prompt)
        /\ Answer(r).status = 200
        /\ Answer(r).body.response # req[r].upstream_text

----------------------------------------------------------------------------
(* C16 *)

\* C16 as stated: when the prompt contains, case-insensitively, a
\* purchase-intent keyword and no social-proof keyword, the returned text is
\* the upstream text followed by the call-to-action suffix containing the
\* configured phone number, appended exactly once, and the text ends with the
\* suffix.  (SpecReply)
C16_UpstreamThenCallToAction ==
    \A r \in Reqs :
        (Replied(r) /\ NonBlank(req[r].upstream_text)
           /\ PurchaseIntent(req[r].prompt) /\ ~SocialProof(req[r].prompt)) =>
            /\ AnsweredWith(r, req[r].upstream_text \o quote_suffix)
            /\ Names(quote_suffix, BUSINESS_PHONE)
            /\ Cardinality(Occurrences(Answer(r).body.response, quote_suffix)) = 1
            /\ EndsWith(Answer(r).body.response, quote_suffix)

\* C16 amended: the returned text is the upstream text, stripped of leading
\* and trailing whitespace, followed by the call-to-action suffix containing
\* the configured phone number, appended exactly once, and the text ends with
\* the suffix.  (SpecReply)
C16_StrippedThenCallToAction ==
    \A r \in Reqs :
        (Replied(r) /\ NonBlank(req[r].upstream_text)
           /\ PurchaseIntent(req[r].prompt) /\ ~SocialProof(req[r].prompt)) =>
            /\ Answer(r).status = 200
            /\ \E base \in {SubSeq(req[r].upstream_text, i, j) :
                                i, j \in 1..Len(req[r].upstream_text)} :
                  /\ Stripped(req[r].upstream_text, base)
                  /\ Answer(r).body.response = base \o quote_suffix
            /\ Names(quote_suffix, BUSINESS_PHONE)
            /\ Cardinality(Occurrences(Answer(r).body.response, quote_suffix)) = 1
            /\ EndsWith(Answer(r).body.response, quote_suffix)
            /\ Recorded(req[r].session_id, Answer(r).body.response)

\* a call whose prompt spells the keyword with a capital was answered
C16_Witness ==
    \E r \in Reqs :
        /\ Replied(r) /\ NonBlank(req[r].upstream_text)
        /\ PurchaseIntent(req[r].prompt) /\ ~SocialProof(req[r].prompt)
        /\ \A word \in quote_words : ~contains(req[r].prompt, word)
        /\ Answer(r).status = 200

----------------------------------------------------------------------------
(* C17 *)

QuoteLead == "**Ready to move forward?** Call or text us at **"
SocialLead == "**Find us on Facebook:** "
BlankLine == "\n\n"

\* the positions of a literal part in a text
PartAt(text, part) == {i \in 1..Len(text) : text[i] = part}

\* C17: when the prompt contains both a purchase-intent and a social-proof
\* keyword, both suffixes appear in the returned text, each exactly once, the
\* quote suffix before the social suffix, each preceded by a blank line.
\* (SpecReply)
C17_BothSuffixesInOrder ==
    \A r \in Reqs :
        (Replied(r) /\ NonBlank(req[r].upstream_text)
           /\ PurchaseIntent(req[r].prompt) /\ SocialProof(req[r].prompt)) =>
            /\ Answer(r).status = 200
            /\ LET text == Answer(r).body.response
                   quote == PartAt(text, QuoteLead)
                   social == PartAt(text, SocialLead)
               IN  /\ Cardinality(quote) = 1 /\ Cardinality(social) = 1
                   /\ \A q \in quote, f \in social :
                         /\ q < f
                         /\ q > 1 /\ text[q - 1] = BlankLine
                         /\ text[f - 1] = BlankLine
                         /\ SubSeq(text, q - 1, f - 2) = quote_suffix
                   /\ Names(text, BUSINESS_PHONE) /\ Names(text, FACEBOOK_PAGE)
                   /\ Recorded(req[r].session_id, text)

\* a call whose prompt has a keyword of each list was answered
C17_Witness ==
    \E r \in Reqs :
        /\ Replied(r) /\ NonBlank(req[r].upstream_text)
        /\ PurchaseIntent(req[r].prompt) /\ SocialProof(req[r].prompt)
        /\ Answer(r).status = 200

----------------------------------------------------------------------------
(* C18 *)

\* the texts a reply of the success path can start with: the provider's
\* text as the gateway returns it, or the substitute for a blank one
ReplyBases ==
    {IF NonBlank(text) THEN strip(text) ELSE empty_result_response : text \in UpstreamTexts}

StartsWith(text, part) == Len(text) >= Len(part) /\ SubSeq(text, 1, Len(part)) = part

ChatSessions == {sid \in DOMAIN active_sessions : IsChatSession(sid)}

\* position i of the session's transcript is a user turn answered at i + 1
\* by a reply of the success path made from the provider text behind base
AnsweredFrom(sid, i, base) ==
    /\ i < Len(Transcript(sid))
    /\ Transcript(sid)[i].type = "user"
    /\ Transcript(sid)[i + 1].type = "assistant"
    /\ StartsWith(Transcript(sid)[i + 1].message, base)

\* C18: which suffixes are appended depends only on the current request's
\* prompt, never on the session's history: two sessions with different
\* earlier turns that receive the same prompt and the same upstream text
\* return the same response text.  (SpecSeq)
C18_SuffixesIgnoreHistory ==
    Quiescent =>
        \A sidA, sidB \in ChatSessions :
            \A i \in 1..Len(Transcript(sidA)), j \in 1..Len(Transcript(sidB)) :
                (/\ Transcript(sidA)[i].type = "user"
                 /\ Transcript(sidB)[j].type = "user"
                 /\ Transcript(sidA)[i].message = Transcript(sidB)[j].message
                 /\ \E base \in ReplyBases :
                       AnsweredFrom(sidA, i, base) /\ AnsweredFrom(sidB, j, base)) =>
                    Transcript(sidA)[i + 1].message = Transcript(sidB)[j + 1].message

\* one session was asked about the cost, got the call-to-action, and was
\* then told a prompt without keyword; another session got that prompt as
\* its first; the provider answered both with the same text
C18_Witness ==
    /\ Quiescent
    /\ \E sidA, sidB \in ChatSessions, base \in ReplyBases :
          /\ sidA # sidB
          /\ Len(Transcript(sidA)) = 4 /\ Len(Transcript(sidB)) = 2
          /\ PurchaseIntent(Transcript(sidA)[1].message)
          /\ EndsWith(Transcript(sidA)[2].message, quote_suffix)
          /\ ~PurchaseIntent(Transcript(sidA)[3].message)
          /\ NonBlank(Transcript(sidA)[3].message)
          /\ Transcript(sidA)[3].message = Transcript(sidB)[1].message
          /\ AnsweredFrom(sidA, 3, base) /\ AnsweredFrom(sidB, 1, base)

----------------------------------------------------------------------------
(* C19 *)

\* C19: when the upstream call succeeds but the extracted text is empty or
\* whitespace-only, the text returned and recorded as the assistant turn is
\* the fixed clarifying fallback; the response augmenter is applied only on
\* the non-empty-success path.  (SpecReply)
C19_EmptyResultFallback ==
    \A r \in Reqs :
        (Replied(r) /\ ~NonBlank(req[r].upstream_text)) =>
            /\ AnsweredWith(r, empty_result_response)
            /\ Recorded(req[r].session_id, empty_result_response)

----------------------------------------------------------------------------
(* C20 *)

\* the content is a list of one image block per image, in the images' order,
\* followed by exactly one text block holding the text
ImageBlocksThenText(content, images, text) ==
    /\ content.kind = "blocks"
    /\ Len(content.blocks) = Len(images) + 1
    /\ \A k \in 1..Len(images) :
          /\ content.blocks[k].type = "image"
          /\ content.blocks[k].source.data = <<images[k][Len(images[k])]>>
    /\ content.blocks[Len(images) + 1] = [type |-> "text", text |-> text]

PlainString(content, text) == content = [kind |-> "str", text |-> text]

\* C20: in the replayed request every historical user turn that carried
\* N >= 1 images is a user entry whose content is N image blocks in order
\* followed by exactly one text block; a historical user turn without images
\* is a user entry with plain-string content; every historical assistant
\* turn is an assistant entry with plain-string content; the entries are in
\* the order of the turns.  (SpecSeq: the history of a call in flight is the
\* transcript before the call's own user turn)
C20_ReplayShape ==
    \A r \in Reqs :
        req[r].pc = "await" =>
            LET turns == Transcript(req[r].session_id)
                sent == req[r].sent[1].messages
            IN  /\ Len(sent) = Len(turns)
                /\ \A i \in 1..(Len(turns) - 1) :
                      IF turns[i].type = "user"
                      THEN /\ sent[i].role = "user"
                           /\ IF turns[i].images # <<>>
                              THEN ImageBlocksThenText(sent[i].content, turns[i].images,
                                                       turns[i].message)
                              ELSE PlainString(sent[i].content, turns[i].message)
                      ELSE /\ turns[i].type = "assistant"
                           /\ sent[i].role = "assistant"
                           /\ PlainString(sent[i].content, turns[i].message)

\* a call is in flight whose history holds a user turn with two images, a
\* user turn without images and their assistant turns
C20_Witness ==
    \E r \in Reqs :
        /\ req[r].pc = "await"
        /\ LET turns == Transcript(req[r].session_id)
           IN  /\ Len(turns) = 5
               /\ \E i, j \in 1..4 :
                     /\ turns[i].type = "user" /\ Len(turns[i].images) = 2
                     /\ turns[j].type = "user" /\ turns[j].images = <<>>
               /\ turns[2].type = "assistant" /\ turns[4].type = "assistant"

----------------------------------------------------------------------------
(* C21 *)

\* the current turn of slot r's call carries at least one image
HasImages(r) == req[r].images # None /\ req[r].images[1] # <<>>

\* C21: the model chosen for an upstream call is the vision-capable model if
\* and only if the current turn carries at least one image, whether or not
\* earlier turns of the session carried images; so two calls whose current
\* turns agree on having images select the same model.  (SpecSeq)
C21_ModelFromCurrentTurn ==
    /\ VISION_MODEL # CLAUDE_MODEL
    /\ \A r \in Reqs :
          req[r].pc = "await" =>
              (req[r].sent[1].model = VISION_MODEL <=> HasImages(r))

\* a call without images is in flight on a session whose history holds a
\* user turn with images
C21_Witness ==
    \E r \in Reqs :
        /\ req[r].pc = "await"
        /\ ~HasImages(r)
        /\ req[r].sent[1].model = CLAUDE_MODEL
        /\ \E i \in 1..(Len(Transcript(req[r].session_id)) - 1) :
              /\ Transcript(req[r].session_id)[i].type = "user"
              /\ Transcript(req[r].session_id)[i].images # <<>>

----------------------------------------------------------------------------
(* C22 *)

\* the state of the request's state machine that a position of chat() is in
Stage(pc) ==
    CASE pc = "idle" -> "NONE"
      [] pc = "create" -> "RECEIVED"
      [] pc \in {"touch", "count_read", "count_write", "append_user"} -> "SESSION_RESOLVED"
      [] pc = "empty" -> "EMPTY_PROMPT_SHORTCIRCUIT"
      [] pc \in {"call", "await", "append_reply", "ret",
                 "except_timeout", "except_other"} -> "UPSTREAM_CALL"
      [] pc = "done" -> "RESPONDED"

\* RECEIVED, SESSION_RESOLVED, one of the two middle states, RESPONDED; a
\* request on a stored identifier is received and resolved by one statement
StageOrder ==
    { <<"NONE", "RECEIVED">>, <<"NONE", "SESSION_RESOLVED">>,
      <<"RECEIVED", "SESSION_RESOLVED">>,
      <<"SESSION_RESOLVED", "EMPTY_PROMPT_SHORTCIRCUIT">>,
      <<"SESSION_RESOLVED", "UPSTREAM_CALL">>,
      <<"EMPTY_PROMPT_SHORTCIRCUIT", "RESPONDED">>,
      <<"UPSTREAM_CALL", "RESPONDED">>,
      <<"RESPONDED", "NONE">> }

\* C22: each chat request moves through RECEIVED, SESSION_RESOLVED, then
\* exactly one of EMPTY_PROMPT_SHORTCIRCUIT or UPSTREAM_CALL, then RESPONDED,
\* in that order, without skipping or revisiting a state.  (A request the
\* field validation rejects never enters the machine.)
C22_StagesInOrder ==
    [][\A r \in Reqs :
          \/ Stage(req[r].pc) = Stage(req'[r].pc)
          \/ <<Stage(req[r].pc), Stage(req'[r].pc)>> \in StageOrder
          \/ req[r].pc = "idle" /\ req'[r].response = Some(unprocessable)]_vars

----------------------------------------------------------------------------
(* C23 *)

\* the session identifier of the request that worker r is on in this step
StepSession(r) == IF req[r].pc = "idle" THEN req'[r].session_id ELSE req[r].session_id

\* C23: a chat request on session A leaves the record of every other session
\* B (transcript, turn count, display name, timestamps) unchanged, whatever
\* requests on B it is interleaved with: no statement of chat() run for A
\* changes the entry of B.
C23_OtherSessionsUntouched ==
    [][\A r \in Reqs :
          req'[r] # req[r] =>
              \A other \in DOMAIN active_sessions \ {StepSession(r)} :
                  /\ other \in DOMAIN active_sessions'
                  /\ active_sessions'[other] = active_sessions[other]]_vars

\* two calls run at the same time on different sessions and each has recorded
\* its user turn
C23_Witness ==
    \E r, q \in Reqs :
        /\ req[r].session_id # req[q].session_id
        /\ req[r].pc \in {"call", "await", "empty"}
        /\ req[q].pc \in {"call", "await", "empty"}
        /\ HasUserTurn(r) /\ HasUserTurn(q)

----------------------------------------------------------------------------
(* C24 *)

\* the next statement of worker q's request that reads or writes the store
\* can run now
CanProceed(q) ==
    /\ req[q].pc = "create" => ENABLED ChatCreate(q)
    /\ req[q].pc = "touch" => ENABLED ChatTouch(q)
    /\ req[q].pc = "count_read" => ENABLED ChatCountRead(q)
    /\ req[q].pc = "count_write" => ENABLED ChatCountWrite(q)
    /\ req[q].pc = "append_user" => ENABLED ChatAppendUser(q)
    /\ req[q].pc = "empty" => ENABLED ChatEmptyPrompt(q)
    /\ req[q].pc = "call" => ENABLED ChatCall(q)
    /\ req[q].pc = "append_reply" => ENABLED ChatAppendReply(q)
    /\ req[q].pc = "ret" => ENABLED ChatReturnSuccess(q)
    /\ req[q].pc = "except_timeout" => ENABLED ChatExceptTimeout(q)
    /\ req[q].pc = "except_other" => ENABLED ChatExceptOther(q)

\* C24: while one chat request's upstream call is in flight the transcript
\* store is not held: every other chat request, on the same or on another
\* session, can run its next statement on the store (so it can record its
\* turns and complete before the call returns); and the in-flight request's
\* assistant turn is not recorded before its call has returned: while it is
\* the only request its session has had, the transcript is its user turn
\* alone.  (SpecChat)
C24_StoreFreeDuringCall ==
    \A r \in Reqs :
        req[r].pc = "await" =>
            /\ \A q \in Reqs \ {r} : CanProceed(q)
            /\ (calls[req[r].session_id] = 1 /\ session_obj[req[r].session_id] = 1) =>
                  Transcript(req[r].session_id) = <<user_turn(req[r].prompt, req[r].images)>>

\* a call is in flight that was posted when its session held its user turn
\* alone; since then another request on the session has recorded its user
\* turn and its assistant turn and has ended
C24_Witness ==
    \E r, q \in Reqs :
        /\ r # q
        /\ req[r].pc = "await" /\ Len(req[r].sent[1].messages) = 1
        /\ Ended(q) /\ req[q].session_id = req[r].session_id
        /\ IsChatSession(req[r].session_id)
        /\ session_obj[req[r].session_id] = 1
        /\ Len(Transcript(req[r].session_id)) = 3
        /\ Transcript(req[r].session_id)[1] = user_turn(req[r].prompt, req[r].images)
        /\ Transcript(req[r].session_id)[2] = user_turn(req[q].prompt, req[q].images)
        /\ Transcript(req[r].session_id)[3].type = "assistant"

----------------------------------------------------------------------------
(* C25 *)

\* C25: in a run of chat (and live-quote) requests the lead sinks are as
\* they were at the start: nothing is written to the lead CSV, nothing has
\* reached the spreadsheet or the e-mail service, and recent_leads is
\* empty, on every path of every request.  (Spec)
C25_LeadSinksUntouched ==
    /\ leads_file = <<>>
    /\ \A url \in DOMAIN posted : posted[url] = <<>>
    /\ recent_leads = <<>>

\* a chat request has posted its upstream call and been answered, another
\* has ended in the handler of a failed call, and the sinks are untouched
C25_Witness ==
    /\ \E r, q \in Reqs :
          /\ Ended(r) /\ req[r].outcome = "ok" /\ Answer(r).status = 200
          /\ Ended(q) /\ req[q].outcome \in UpstreamFailures
    /\ posted = [url \in {SHEETS_API_URL, BREVO_API_URL} |-> <<>>]
    /\ leads_file = <<>> /\ recent_leads = <<>>

\* C26: a chat request that returns a response text has appended exactly one
\* user turn and exactly one assistant turn, and the text it returns is the
\* text of that assistant turn.  (SpecRace)
C26_OneTurnEachAndEcho ==
    \A r \in Reqs :
        (Ended(r) /\ Answer(r).status = 200) =>
            req[r].own_turns = <<user_turn(req[r].prompt, req[r].images),
                                 assistant_turn(Answer(r).body.response)>>

----------------------------------------------------------------------------
(* C29 *)

\* what a chat session is created with and, by the claim, keeps
Identity(d) == [user_name |-> d.user_name, created |-> d.created, ip |-> d.ip]

\* C29: a session is created with the display name of the creating request
\* ("Visitor" when it supplies none), and no step of a chat request changes
\* the display name, the creation time or the address of a session that
\* exists.  (SpecChat)
C29_IdentityFixed ==
    [][\A r \in Reqs :
          /\ (req[r].pc = "create" /\ req'[r].pc = "touch") =>
                active_sessions'[req[r].session_id].user_name =
                    IF req[r].user_name \in {None, Some(<<>>)}
                    THEN <<"V", "i", "s", "i", "t", "o", "r">>
                    ELSE req[r].user_name[1]
          /\ \A sid \in DOMAIN active_sessions :
                /\ sid \in DOMAIN active_sessions'
                /\ Identity(active_sessions'[sid]) = Identity(active_sessions[sid])]_vars

----------------------------------------------------------------------------
(* C30 *)

\* the media type that the payload's data-URI prefix names; JPEG when it
\* names none of the others or when there is no prefix
NamedType(img) ==
    IF img[1] = "data:" /\ img[2] \in {"image/png", "image/webp", "image/gif"}
    THEN img[2] ELSE "image/jpeg"

\* C30: in the request that a call posts, the blocks of the current message
\* are one image block per payload, tagged with the media type that the
\* payload's prefix names and holding the payload without the prefix; and no
\* call ends in the exception handler before anything was posted (every
\* payload of the inputs is bare or starts with a data-URI prefix).  (SpecSeq)
C30_ImageBlocksTagged ==
    \A r \in Reqs :
        /\ (req[r].pc = "await" /\ HasImages(r)) =>
              LET imgs == req[r].images[1]
                  content == req[r].sent[1].messages[Len(req[r].sent[1].messages)].content
              IN  /\ content.kind = "blocks"
                  /\ Len(content.blocks) = Len(imgs) + 1
                  /\ \A i \in 1..Len(imgs) :
                        /\ content.blocks[i].type = "image"
                        /\ content.blocks[i].source.media_type = NamedType(imgs[i])
                        /\ content.blocks[i].source.data = <<imgs[i][Len(imgs[i])]>>
        /\ ~(req[r].pc = "except_other" /\ req[r].upstream_calls = 0)

----------------------------------------------------------------------------
(* C27 *)

\* no lead handler is between its first and its last statement
LeadsQuiescent == \A s \in LeadReqs : lead_req[s].pc \in {"idle", "done"}

RecentIds == [i \in 1..Len(recent_leads) |-> recent_leads[i].id]

\* the last n elements of the sequence, all of it when it is shorter
LastOf(seq, n) ==
    IF Len(seq) <= n THEN seq ELSE SubSeq(seq, Len(seq) - n + 1, Len(seq))

\* C27: once every submission has completed, recent_leads holds at most 50
\* entries, and they are the most recent submissions (all of them, or the
\* last 50) in the order in which the submissions were appended, the oldest
\* having been evicted first.  (SpecLeadFull)
C27_RecentInAppendOrder ==
    LeadsQuiescent =>
        /\ Len(recent_leads) <= MaxRecentLeads
        /\ RecentIds = LastOf(added, MaxRecentLeads)

----------------------------------------------------------------------------
(* C28 *)

Sinks == {"csv", "sheets", "email"}

\* slot s holds a submission that has ended after its handler reached the
\* sinks: every accepted POST /lead, and every POST /lead-with-photos whose
\* photos were read
Submitted(s) ==
    /\ lead_req[s].pc = "done"
    /\ lead_req[s].response # Some(unprocessable)
    /\ lead_req[s].kind = "lead" \/ lead_req[s].tried # {}

Listed(id) == \E i \in 1..Len(recent_leads) : recent_leads[i].id = id

\* C28: whichever of the CSV write, the spreadsheet append and the email
\* send fail, a lead submission is answered with ok and its lead id, all
\* three sinks were attempted, and the lead is in recent_leads.  (SpecLeadFull)
C28_SinkFailuresAbsorbed ==
    \A s \in LeadReqs :
        Submitted(s) =>
            /\ lead_req[s].response[1].status = 200
            /\ lead_req[s].response[1].body.ok
            /\ lead_req[s].response[1].body.lead_id = lead_req[s].lead_id
            /\ lead_req[s].tried = Sinks
            /\ Listed(lead_req[s].lead_id)

\* a POST /lead has ended with ok after all three of its sinks failed
C28_Witness ==
    \E s \in LeadReqs :
        /\ Submitted(s) /\ lead_req[s].kind = "lead"
        /\ lead_req[s].failed = Sinks
        /\ lead_req[s].response[1].status = 200
        /\ Listed(lead_req[s].lead_id)
        /\ leads_file = <<>>

====
